---- MODULE Spec2Model ----
(***************************************************************************)
(* Model of src/process_data.py: the marketing integration pipeline.       *)
(*                                                                         *)
(* A DataFrame is a record [cols, rows]: cols is the set of column names   *)
(* and rows a sequence of functions from cols to cells.  A cell is a       *)
(* tagged value: a number, a null (NaN / NaT), a string or a calendar      *)
(* date.  Numbers are fixed-point with two decimals: the field n holds     *)
(* hundredths, so 100.0 is Num(10000) and 30.0/1000.0 per e-mail is 3.     *)
(* A calendar date is the number of days since Monday 2024-01-01.          *)
(***************************************************************************)
EXTENDS Integers, Sequences, FiniteSets, TLC

VARIABLES
    pc,         \* position of main(): the next statement to run
    err,        \* the exception that ended the run, "none" while it runs
    rawPpc,     \* data/ppc_spend.csv as read_csv returns it
    rawEmail,   \* data/email_campaigns.csv
    rawSocial,  \* data/social_media_ads.csv
    rawConv,    \* data/website_conversions.csv
    ppc,        \* main's ppc
    email,      \* main's email
    social,     \* main's social
    conv,       \* main's conv (the conversion summary)
    base,       \* integrate's base: the stacked activity rows
    merged,     \* main's merged
    daily,      \* main's daily
    weekly,     \* main's weekly
    written,    \* the output files written so far
    tbl,        \* coalesce_numeric called on its own: the table
    req,        \* ... and the list of required columns
    once,       \* ... the table after one call
    twice       \* ... the table after a second call with the same list

vars == <<pc, err, rawPpc, rawEmail, rawSocial, rawConv, ppc, email, social,
          conv, base, merged, daily, weekly, written, tbl, req, once, twice>>

unitVars == <<tbl, req, once, twice>>

(***************************************************************************)
(* Bounds of the model.                                                    *)
(***************************************************************************)
\* rows over the four source files of one run, together
MaxRows == 3
\* columns missing from the four source files of one run, together
MaxAbsent == 2
\* rows of the table handed to coalesce_numeric on its own
MaxTblRows == 2
\* length of the list of required columns handed to coalesce_numeric
MaxReq == 2

(***************************************************************************)
(* Cells.                                                                  *)
(***************************************************************************)
Null == [t |-> "null", n |-> 0, s |-> ""]
Num(x) == [t |-> "num", n |-> x, s |-> ""]
Str(x) == [t |-> "str", n |-> 0, s |-> x]
Date(d) == [t |-> "date", n |-> d, s |-> ""]

\* k whole units as hundredths
Units(k) == k * 100

\* Series.isna() of one value
IsNa(c) == c.t = "null"

(***************************************************************************)
(* DataFrames.                                                             *)
(***************************************************************************)
Frame(cs, rs) == [cols |-> cs, rows |-> rs]

NoFrame == Frame({}, <<>>)

\* df[c] = vals, a value per row: the column is added or replaced
SetCol(df, c, vals) ==
    Frame(df.cols \cup {c},
          [i \in DOMAIN df.rows |->
              [k \in df.cols \cup {c} |->
                  IF k = c THEN vals[i] ELSE df.rows[i][k]]])

\* df[c] = v, the same value in every row
SetAll(df, c, v) == SetCol(df, c, [i \in DOMAIN df.rows |-> v])

\* df[[c1, c2, ...]]
Project(df, cs) ==
    Frame(cs, [i \in DOMAIN df.rows |-> [k \in cs |-> df.rows[i][k]]])

\* the row r cut to the columns cs
Restrict(r, cs) == [k \in cs |-> r[k]]

\* all sequences over S of length n
SeqsOfLen(S, n) == [1..n -> S]

(***************************************************************************)
(* Dates.                                                                  *)
(***************************************************************************)
\* the date strings pd.to_datetime can parse, among those the model draws
ParseableDates == {"2024-01-01", "2024-01-03", "2024-01-08"}

\* days from Monday 2024-01-01 to the date the string spells
DayNumber(x) ==
    CASE x = "2024-01-01" -> 0
      [] x = "2024-01-03" -> 2
      [] x = "2024-01-08" -> 7

\* pd.to_datetime(value, errors="coerce").date(): what does not parse is NaT
ParseDate(c) ==
    IF c.t = "str" /\ c.s \in ParseableDates THEN Date(DayNumber(c.s))
    ELSE IF c.t = "date" THEN c
    ELSE Null

(***************************************************************************)
(* The channel normalizers.  A loader returns [err, df]: err is "none" or  *)
(* the exception it raised.                                                *)
(***************************************************************************)
Ok(df) == [err |-> "none", df |-> df]
Raise(e) == [err |-> e, df |-> NoFrame]

\* arithmetic on a column that holds a string raises TypeError
HasStr(df, c) == \E i \in DOMAIN df.rows : df.rows[i][c].t = "str"

\* load_ppc and load_email with .isna().any() where the code has .all()
AbsentOrAnyNull(df, c) ==
    \/ c \notin df.cols
    \/ \E i \in DOMAIN df.rows : IsNa(df.rows[i][c])

\* c not in df.columns or df[c].isna().all()
AbsentOrAllNull(df, c) ==
    \/ c \notin df.cols
    \/ \A i \in DOMAIN df.rows : IsNa(df.rows[i][c])

\* df[DATE_COL] = pd.to_datetime(df["date"], errors="coerce").dt.date
\* df['channel'] = <label>
TagChannel(df, label) ==
    SetAll(SetCol(df, "date",
                  [i \in DOMAIN df.rows |-> ParseDate(df.rows[i]["date"])]),
           "channel", Str(label))

ESTIMATED_CPC == 2

CPM_RATE == 30

\* a / b rounded to the nearest integer, a tie to the even one (numpy's round)
RoundHalfEven(a, b) ==
    LET q == a \div b
        r == a % b
    IN  IF 2 * r < b THEN q
        ELSE IF 2 * r > b THEN q + 1
        ELSE IF q % 2 = 0 THEN q ELSE q + 1

\* one value of (df["spend"] / ESTIMATED_CPC).round()
EstimatedClicks(spend) ==
    IF spend.t = "num"
    THEN Num(Units(RoundHalfEven(spend.n, Units(ESTIMATED_CPC))))
    ELSE Null

\* one value of df["emails_sent"] * (CPM_RATE / 1000.0)
EstimatedSpend(sent) ==
    IF sent.t = "num" THEN Num((sent.n * CPM_RATE) \div 1000) ELSE Null

load_ppc(raw) ==
    IF "date" \notin raw.cols THEN Raise("ValueError")
    ELSE LET df == TagChannel(raw, "PPC") IN
         IF AbsentOrAllNull(df, "clicks")
         THEN IF "spend" \notin df.cols THEN Raise("KeyError")
              ELSE IF HasStr(df, "spend") THEN Raise("TypeError")
              ELSE Ok(SetCol(df, "clicks",
                             [i \in DOMAIN df.rows |->
                                 EstimatedClicks(df.rows[i]["spend"])]))
         ELSE Ok(df)

load_email(raw) ==
    IF "date" \notin raw.cols THEN Raise("ValueError")
    ELSE LET df == TagChannel(raw, "Email") IN
         IF AbsentOrAllNull(df, "spend")
         THEN IF "emails_sent" \notin df.cols THEN Raise("KeyError")
              ELSE IF HasStr(df, "emails_sent") THEN Raise("TypeError")
              ELSE Ok(SetCol(df, "spend",
                             [i \in DOMAIN df.rows |->
                                 EstimatedSpend(df.rows[i]["emails_sent"])]))
         ELSE Ok(df)

load_social(raw) ==
    IF "date" \notin raw.cols THEN Raise("ValueError")
    ELSE Ok(TagChannel(raw, "Social Media"))

(***************************************************************************)
(* Ordering and grouping by (date, channel).                               *)
(***************************************************************************)
\* the place of a channel label among the labels, compared as strings
ChannelRank(x) ==
    CASE x = "Email" -> 1
      [] x = "PPC" -> 2
      [] x = "Social Media" -> 3

\* a date before another; a null date comes last (na_position="last")
DateLess(a, b) == ~IsNa(a) /\ (IsNa(b) \/ a.n < b.n)

\* row a strictly before row b by (date, channel)
KeyLess(a, b) ==
    \/ DateLess(a["date"], b["date"])
    \/ /\ a["date"] = b["date"]
       /\ ChannelRank(a["channel"].s) < ChannelRank(b["channel"].s)

SameKey(a, b) == a["date"] = b["date"] /\ a["channel"] = b["channel"]

\* x put into the sorted rows after every row that is not after it
InsertRow(rows, x) ==
    LET p == Cardinality({i \in DOMAIN rows : ~KeyLess(x, rows[i])})
    IN  SubSeq(rows, 1, p) \o <<x>> \o SubSeq(rows, p + 1, Len(rows))

RECURSIVE SortRows(_)
\* sort_values(["date", "channel"]): stable, ascending
SortRows(rows) ==
    IF Len(rows) = 0 THEN <<>>
    ELSE InsertRow(SortRows(SubSeq(rows, 1, Len(rows) - 1)), rows[Len(rows)])

RECURSIVE SumCells(_, _)
\* sum of column c over the rows, nulls skipped (0.0 when nothing is left)
SumCells(rows, c) ==
    IF Len(rows) = 0 THEN 0
    ELSE (IF rows[1][c].t = "num" THEN rows[1][c].n ELSE 0)
         + SumCells(Tail(rows), c)

\* the grouping with dropna=False: the rows with a null key stay
AllRows(rows) == rows

\* the rows whose group keys are not null (groupby's dropna=True)
KeyedRows(rows) ==
    SelectSeq(rows, LAMBDA r : ~IsNa(r["date"]) /\ ~IsNa(r["channel"]))

\* the rows of one group
GroupOf(rows, k) == SelectSeq(rows, LAMBDA r : SameKey(r, k))

\* one row per group: the first row of each, in sorted order
GroupHeads(rows) ==
    LET idx == {i \in DOMAIN rows :
                   \A j \in 1..(i - 1) : ~SameKey(rows[j], rows[i])}
        keep == SelectSeq([i \in DOMAIN rows |-> i], LAMBDA i : i \in idx)
    IN  SortRows([n \in DOMAIN keep |-> rows[keep[n]]])

(***************************************************************************)
(* The conversion aggregator.                                              *)
(***************************************************************************)
\* the sum of a single revenue value
FillZeroRevenue(c) == IF c.t = "num" THEN c ELSE Num(0)

\* load_conversions without its groupby: one summary row per event
SummariseUngrouped(rows) ==
    LET kept == SortRows(KeyedRows(rows))
    IN  [n \in DOMAIN kept |->
            [k \in {"date", "channel", "revenue", "conversions"} |->
                CASE k = "date" -> kept[n]["date"]
                  [] k = "channel" -> kept[n]["channel"]
                  [] k = "revenue" -> FillZeroRevenue(kept[n]["revenue"])
                  [] k = "conversions" -> Num(Units(1))]]

\* groupby(['date','channel'], as_index=False).agg(revenue=sum,
\* conversions=nunique) of the rows
Summarise(rows) ==
    LET kept == KeyedRows(rows)
        heads == GroupHeads(kept)
    IN  [n \in DOMAIN heads |->
            LET g == GroupOf(kept, heads[n]) IN
            [k \in {"date", "channel", "revenue", "conversions"} |->
                CASE k = "date" -> heads[n]["date"]
                  [] k = "channel" -> heads[n]["channel"]
                  [] k = "revenue" -> Num(SumCells(g, "revenue"))
                  [] k = "conversions" ->
                       Num(Units(Cardinality(
                           {g[i]["conversion_id"] : i \in DOMAIN g}
                           \ {Null})))]]

load_conversions(raw) ==
    IF "date" \notin raw.cols THEN Raise("ValueError")
    ELSE IF {"channel", "revenue", "conversion_id"} \subseteq raw.cols
    THEN LET df == SetCol(raw, "date",
                          [i \in DOMAIN raw.rows |->
                              ParseDate(raw.rows[i]["date"])])
         IN  Ok(Frame({"date", "channel", "revenue", "conversions"},
                      Summarise(df.rows)))
    ELSE Raise("KeyError")

(***************************************************************************)
(* The schema harmonizer.                                                  *)
(***************************************************************************)
\* the strings pd.to_numeric can parse, among those the model draws
NumericStrings == {"12", "7.5"}

\* the number the string spells, in hundredths
NumberOf(x) ==
    CASE x = "12" -> 1200
      [] x = "7.5" -> 750

\* one value of pd.to_numeric(column, errors="coerce")
ToNumeric(c) ==
    IF c.t = "num" THEN c
    ELSE IF c.t = "str" /\ c.s \in NumericStrings THEN Num(NumberOf(c.s))
    ELSE Null

\* coalesce_numeric without its .fillna(0.0)
FillNothing(c) == c

\* one value of .fillna(0.0)
FillZero(c) == IF IsNa(c) THEN Num(0) ELSE c

\* coalesce_numeric creating an absent column as NaN instead of 0.0
CoalesceColNaN(df, c) ==
    IF c \in df.cols
    THEN SetCol(df, c, [i \in DOMAIN df.rows |->
                           FillZero(ToNumeric(df.rows[i][c]))])
    ELSE SetAll(df, c, Null)

\* the body of coalesce_numeric's loop, for one column
CoalesceCol(df, c) ==
    IF c \in df.cols
    THEN SetCol(df, c, [i \in DOMAIN df.rows |->
                           FillZero(ToNumeric(df.rows[i][c]))])
    ELSE SetAll(df, c, Num(0))

RECURSIVE coalesce_numeric(_, _)
coalesce_numeric(df, cols) ==
    IF Len(cols) = 0 THEN df
    ELSE coalesce_numeric(CoalesceCol(df, Head(cols)), Tail(cols))

(***************************************************************************)
(* The integrator.                                                         *)
(***************************************************************************)
\* frame.assign(c=0.0)
AssignZero(df, c) == SetAll(df, c, Num(0))

\* the indices of the summary rows whose key equals the row's, ascending
Matches(r, right) ==
    SelectSeq([j \in DOMAIN right.rows |-> j],
              LAMBDA j : SameKey(r, right.rows[j]))

\* the rows a left row gives in a left join: one per match, or one with
\* nulls in the right table's columns
JoinRow(r, right, cs) ==
    LET m == Matches(r, right) IN
    IF Len(m) = 0
    THEN <<[k \in cs |-> IF k \in DOMAIN r THEN r[k] ELSE Null]>>
    ELSE [n \in DOMAIN m |->
             [k \in cs |-> IF k \in DOMAIN r THEN r[k]
                           ELSE right.rows[m[n]][k]]]

RECURSIVE JoinRows(_, _, _)
JoinRows(rows, right, cs) ==
    IF Len(rows) = 0 THEN <<>>
    ELSE JoinRow(Head(rows), right, cs) \o JoinRows(Tail(rows), right, cs)

RECURSIVE InnerRows(_, _, _)
InnerRows(rows, right, cs) ==
    IF Len(rows) = 0 THEN <<>>
    ELSE (IF Len(Matches(Head(rows), right)) = 0 THEN <<>>
          ELSE JoinRow(Head(rows), right, cs))
         \o InnerRows(Tail(rows), right, cs)

\* the merge with how='inner' where the code has how='left'
MergeInner(left, right) ==
    Frame(left.cols \cup right.cols,
          InnerRows(left.rows, right, left.cols \cup right.cols))

\* left.merge(right, on=['date','channel'], how='left')
MergeLeft(left, right) ==
    Frame(left.cols \cup right.cols,
          JoinRows(left.rows, right, left.cols \cup right.cols))

\* the rows of pd.concat([...], ignore_index=True) over the three
\* projections
Stack(p, e, s) ==
    LET cs == {"date", "channel", "spend", "clicks", "emails_sent",
               "impressions"}
        pp == AssignZero(AssignZero(
                  Project(p, {"date", "channel", "spend", "clicks"}),
                  "emails_sent"), "impressions")
        ee == AssignZero(
                  Project(e, {"date", "channel", "spend", "clicks",
                              "emails_sent"}),
                  "impressions")
        ss == AssignZero(
                  Project(s, {"date", "channel", "spend", "clicks",
                              "impressions"}),
                  "emails_sent")
    IN  Frame(cs, pp.rows \o ee.rows \o ss.rows)

\* integrate returns [err, df] and, for the model, the three tables as
\* coalesce_numeric left them (it writes into the caller's tables) and base
integrate(p, e, s, c) ==
    IF \E df \in {p, e, s} : ~({"date", "channel"} \subseteq df.cols)
    THEN [err |-> "ValueError", p |-> p, e |-> e, s |-> s,
          base |-> NoFrame, df |-> NoFrame]
    ELSE LET p1 == coalesce_numeric(p, <<"spend", "clicks">>)
             e1 == coalesce_numeric(e, <<"spend", "clicks">>)
             s1 == coalesce_numeric(s, <<"spend", "clicks", "impressions">>)
         IN  IF "emails_sent" \notin e1.cols
             THEN [err |-> "KeyError", p |-> p1, e |-> e1, s |-> s1,
                   base |-> NoFrame, df |-> NoFrame]
             ELSE LET b == Stack(p1, e1, s1)
                      m == MergeLeft(b, c)
                      m1 == coalesce_numeric(m,
                                <<"spend", "clicks", "revenue", "emails_sent",
                                  "impressions">>)
                  IN  [err |-> "none", p |-> p1, e |-> e1, s |-> s1,
                       base |-> b,
                       df |-> Frame(m1.cols, SortRows(m1.rows))]

(***************************************************************************)
(* The time bucketer.                                                      *)
(***************************************************************************)
\* one value of pd.to_datetime(column, errors="coerce", dayfirst=True) on a
\* column of calendar dates
ToTimestamp(c) == IF c.t = "date" THEN c ELSE Null

\* the label of the freq="W-MON" bin that holds day d: the bins end on
\* Mondays, are closed on the right and carry the right edge as label
WeekBin(d) == IF d % 7 = 0 THEN d ELSE d + (7 - (d % 7))

NumericCols ==
    {"spend", "clicks", "emails_sent", "impressions", "revenue", "conversions"}

\* groupby([Grouper(key="date", freq="W-MON"), "channel"]).sum() of the rows
WeeklyRows(rows) ==
    LET kept == KeyedRows(rows)
        binned == [i \in DOMAIN kept |->
                      [kept[i] EXCEPT !["date"] =
                          IF IsNa(@) THEN @ ELSE Date(WeekBin(@.n))]]
        heads == GroupHeads(binned)
    IN  [n \in DOMAIN heads |->
            LET g == GroupOf(binned, heads[n]) IN
            [k \in DOMAIN heads[n] |->
                IF k \in NumericCols THEN Num(SumCells(g, k))
                ELSE heads[n][k]]]

\* what the grouping can do with the table: a Grouper over a column that
\* holds rows but no date at all has no first and last bin edge, and the
\* pandas release decides whether that raises
BucketOutcomes(df) ==
    IF Len(df.rows) > 0 /\ \A i \in DOMAIN df.rows : IsNa(df.rows[i]["date"])
    THEN {"none", "ValueError"}
    ELSE {"none"}

\* add_time_granularities returns [daily, weekly]
add_time_granularities(df) ==
    LET d == SetCol(df, "date",
                    [i \in DOMAIN df.rows |-> ToTimestamp(df.rows[i]["date"])])
    IN  [daily |-> d, weekly |-> Frame(d.cols, WeeklyRows(d.rows))]

(***************************************************************************)
(* The source files the model draws.                                       *)
(***************************************************************************)
RawDates == ParseableDates \cup {"not a date"}

\* rows of ppc_spend.csv: date, spend, clicks
PpcRows ==
    {[date |-> Str("2024-01-01"), spend |-> Num(Units(100)),
      clicks |-> Num(Units(40))],
     [date |-> Str("2024-01-03"), spend |-> Num(Units(5)), clicks |-> Null],
     [date |-> Str("2024-01-08"), spend |-> Num(Units(3)), clicks |-> Null],
     [date |-> Str("2024-01-08"), spend |-> Str("abc"), clicks |-> Null],
     [date |-> Str("not a date"), spend |-> Num(Units(50)),
      clicks |-> Num(Units(20))]}

\* rows of email_campaigns.csv: date, emails_sent, spend
EmailRows ==
    {[date |-> Str("2024-01-01"), emails_sent |-> Num(Units(2000)),
      spend |-> Null],
     [date |-> Str("2024-01-03"), emails_sent |-> Num(Units(1000)),
      spend |-> Num(Units(45))],
     [date |-> Str("2024-01-08"), emails_sent |-> Str("abc"), spend |-> Null],
     [date |-> Str("not a date"), emails_sent |-> Num(Units(300)),
      spend |-> Num(Units(9))]}

\* rows of social_media_ads.csv: date, spend, clicks, impressions
SocialRows ==
    {[date |-> Str("2024-01-01"), spend |-> Num(Units(20)),
      clicks |-> Num(Units(8)), impressions |-> Num(Units(900))],
     [date |-> Str("2024-01-03"), spend |-> Str("abc"), clicks |-> Null,
      impressions |-> Num(Units(300))],
     [date |-> Str("2024-01-08"), spend |-> Num(Units(11)),
      clicks |-> Num(Units(4)), impressions |-> Null],
     [date |-> Str("not a date"), spend |-> Num(Units(6)),
      clicks |-> Num(Units(2)), impressions |-> Num(Units(100))]}

\* rows of website_conversions.csv: date, channel, revenue, conversion_id
ConvRows ==
    {[date |-> Str("2024-01-01"), channel |-> Str("PPC"),
      revenue |-> Num(Units(10)), conversion_id |-> Str("c1")],
     [date |-> Str("2024-01-01"), channel |-> Str("PPC"),
      revenue |-> Num(Units(25)), conversion_id |-> Str("c2")],
     [date |-> Str("2024-01-03"), channel |-> Str("Email"),
      revenue |-> Null, conversion_id |-> Str("c1")],
     [date |-> Str("not a date"), channel |-> Str("PPC"),
      revenue |-> Num(Units(7)), conversion_id |-> Str("c3")]}

\* the columns of a row set
ColsOf(S) == UNION {DOMAIN r : r \in S}

\* one complete row per file, for the runs that draw the columns
OnePpcRow ==
    [date |-> Str("2024-01-01"), spend |-> Num(Units(100)),
     clicks |-> Num(Units(40))]
OneEmailRow ==
    [date |-> Str("2024-01-01"), emails_sent |-> Num(Units(2000)),
     spend |-> Num(Units(45))]
OneSocialRow ==
    [date |-> Str("2024-01-03"), spend |-> Num(Units(20)),
     clicks |-> Num(Units(8)), impressions |-> Num(Units(900))]
OneConvRow ==
    [date |-> Str("2024-01-01"), channel |-> Str("PPC"),
     revenue |-> Num(Units(10)), conversion_id |-> Str("c1")]

\* the values a cell of the table handed to coalesce_numeric may hold
TblCells(c) ==
    IF c = "spend" THEN {Num(Units(3)), Null, Str("abc"), Str("12")}
    ELSE {Null, Str("7.5")}

\* the column names coalesce_numeric is asked for
ReqCols == {"spend", "clicks", "impressions"}

(***************************************************************************)
(* Initial states.                                                         *)
(***************************************************************************)
RunStart ==
    /\ pc = "load_ppc"
    /\ err = "none"
    /\ ppc = NoFrame
    /\ email = NoFrame
    /\ social = NoFrame
    /\ conv = NoFrame
    /\ base = NoFrame
    /\ merged = NoFrame
    /\ daily = NoFrame
    /\ weekly = NoFrame
    /\ written = {}
    /\ tbl = NoFrame
    /\ req = <<>>
    /\ once = NoFrame
    /\ twice = NoFrame

\* a run over complete files that hold at most MaxRows rows together
InitRows ==
    /\ \E np \in 0..MaxRows : \E ne \in 0..(MaxRows - np) :
       \E ns \in 0..(MaxRows - np - ne) :
       \E nc \in 0..(MaxRows - np - ne - ns) :
          /\ rawPpc \in {Frame(ColsOf(PpcRows), rs) :
                            rs \in SeqsOfLen(PpcRows, np)}
          /\ rawEmail \in {Frame(ColsOf(EmailRows), rs) :
                              rs \in SeqsOfLen(EmailRows, ne)}
          /\ rawSocial \in {Frame(ColsOf(SocialRows), rs) :
                               rs \in SeqsOfLen(SocialRows, ns)}
          /\ rawConv \in {Frame(ColsOf(ConvRows), rs) :
                             rs \in SeqsOfLen(ConvRows, nc)}
    /\ RunStart

\* a run over one-row files that lack at most MaxAbsent columns together
InitColumns ==
    /\ \E cp \in SUBSET DOMAIN OnePpcRow : \E ce \in SUBSET DOMAIN OneEmailRow :
       \E cs \in SUBSET DOMAIN OneSocialRow : \E cc \in SUBSET DOMAIN OneConvRow :
          /\ Cardinality(DOMAIN OnePpcRow \ cp)
             + Cardinality(DOMAIN OneEmailRow \ ce)
             + Cardinality(DOMAIN OneSocialRow \ cs)
             + Cardinality(DOMAIN OneConvRow \ cc) \in 1..MaxAbsent
          /\ rawPpc = Frame(cp, <<Restrict(OnePpcRow, cp)>>)
          /\ rawEmail = Frame(ce, <<Restrict(OneEmailRow, ce)>>)
          /\ rawSocial = Frame(cs, <<Restrict(OneSocialRow, cs)>>)
          /\ rawConv = Frame(cc, <<Restrict(OneConvRow, cc)>>)
    /\ RunStart

\* coalesce_numeric called on its own
InitCoalesce ==
    /\ \E cs \in SUBSET {"spend", "clicks"} : \E n \in 0..MaxTblRows :
          tbl \in {Frame(cs, rs) :
                      rs \in SeqsOfLen({r \in [cs -> UNION {TblCells(c) : c \in cs}] :
                                           \A c \in cs : r[c] \in TblCells(c)}, n)}
    /\ \E n \in 0..MaxReq : req \in SeqsOfLen(ReqCols, n)
    /\ pc = "coalesce"
    /\ err = "none"
    /\ rawPpc = NoFrame
    /\ rawEmail = NoFrame
    /\ rawSocial = NoFrame
    /\ rawConv = NoFrame
    /\ ppc = NoFrame
    /\ email = NoFrame
    /\ social = NoFrame
    /\ conv = NoFrame
    /\ base = NoFrame
    /\ merged = NoFrame
    /\ daily = NoFrame
    /\ weekly = NoFrame
    /\ written = {}
    /\ once = NoFrame
    /\ twice = NoFrame

Init == InitRows \/ InitColumns \/ InitCoalesce

(***************************************************************************)
(* main(), statement by statement.                                         *)
(***************************************************************************)
LoadPpc ==
    /\ pc = "load_ppc"
    /\ LET r == load_ppc(rawPpc) IN
       /\ err' = r.err
       /\ pc' = IF r.err = "none" THEN "load_email" ELSE "failed"
       /\ ppc' = r.df
    /\ UNCHANGED <<rawPpc, rawEmail, rawSocial, rawConv, email, social, conv,
                   base, merged, daily, weekly, written>>
    /\ UNCHANGED unitVars

LoadEmail ==
    /\ pc = "load_email"
    /\ LET r == load_email(rawEmail) IN
       /\ err' = r.err
       /\ pc' = IF r.err = "none" THEN "load_social" ELSE "failed"
       /\ email' = r.df
    /\ UNCHANGED <<rawPpc, rawEmail, rawSocial, rawConv, ppc, social, conv,
                   base, merged, daily, weekly, written>>
    /\ UNCHANGED unitVars

LoadSocial ==
    /\ pc = "load_social"
    /\ LET r == load_social(rawSocial) IN
       /\ err' = r.err
       /\ pc' = IF r.err = "none" THEN "load_conversions" ELSE "failed"
       /\ social' = r.df
    /\ UNCHANGED <<rawPpc, rawEmail, rawSocial, rawConv, ppc, email, conv,
                   base, merged, daily, weekly, written>>
    /\ UNCHANGED unitVars

LoadConversions ==
    /\ pc = "load_conversions"
    /\ LET r == load_conversions(rawConv) IN
       /\ err' = r.err
       /\ pc' = IF r.err = "none" THEN "integrate" ELSE "failed"
       /\ conv' = r.df
    /\ UNCHANGED <<rawPpc, rawEmail, rawSocial, rawConv, ppc, email, social,
                   base, merged, daily, weekly, written>>
    /\ UNCHANGED unitVars

Integrate ==
    /\ pc = "integrate"
    /\ LET r == integrate(ppc, email, social, conv) IN
       /\ err' = r.err
       /\ pc' = IF r.err = "none" THEN "bucket" ELSE "failed"
       /\ ppc' = r.p
       /\ email' = r.e
       /\ social' = r.s
       /\ base' = r.base
       /\ merged' = r.df
    /\ UNCHANGED <<rawPpc, rawEmail, rawSocial, rawConv, conv, daily, weekly,
                   written>>
    /\ UNCHANGED unitVars

AddTimeGranularities ==
    /\ pc = "bucket"
    /\ \E o \in BucketOutcomes(merged) :
          IF o = "none"
          THEN LET r == add_time_granularities(merged) IN
               /\ daily' = r.daily
               /\ weekly' = r.weekly
               /\ pc' = "write_daily"
               /\ err' = err
          ELSE /\ pc' = "failed"
               /\ err' = o
               /\ UNCHANGED <<daily, weekly>>
    /\ UNCHANGED <<rawPpc, rawEmail, rawSocial, rawConv, ppc, email, social,
                   conv, base, merged, written>>
    /\ UNCHANGED unitVars

WriteDaily ==
    /\ pc = "write_daily"
    /\ written' = written \cup {"daily"}
    /\ pc' = "write_weekly"
    /\ UNCHANGED <<err, rawPpc, rawEmail, rawSocial, rawConv, ppc, email,
                   social, conv, base, merged, daily, weekly>>
    /\ UNCHANGED unitVars

WriteWeekly ==
    /\ pc = "write_weekly"
    /\ written' = written \cup {"weekly"}
    /\ pc' = "done"
    /\ UNCHANGED <<err, rawPpc, rawEmail, rawSocial, rawConv, ppc, email,
                   social, conv, base, merged, daily, weekly>>
    /\ UNCHANGED unitVars

(***************************************************************************)
(* coalesce_numeric called on its own, once and then again on its result.  *)
(***************************************************************************)
CoalesceOnce ==
    /\ pc = "coalesce"
    /\ once' = coalesce_numeric(tbl, req)
    /\ pc' = "coalesce_again"
    /\ UNCHANGED <<err, rawPpc, rawEmail, rawSocial, rawConv, ppc, email,
                   social, conv, base, merged, daily, weekly, written>>
    /\ UNCHANGED <<tbl, req, twice>>

CoalesceTwice ==
    /\ pc = "coalesce_again"
    /\ twice' = coalesce_numeric(once, req)
    /\ pc' = "coalesced"
    /\ UNCHANGED <<err, rawPpc, rawEmail, rawSocial, rawConv, ppc, email,
                   social, conv, base, merged, daily, weekly, written>>
    /\ UNCHANGED <<tbl, req, once>>

Next ==
    \/ LoadPpc
    \/ LoadEmail
    \/ LoadSocial
    \/ LoadConversions
    \/ Integrate
    \/ AddTimeGranularities
    \/ WriteDaily
    \/ WriteWeekly
    \/ CoalesceOnce
    \/ CoalesceTwice

Spec == Init /\ [][Next]_vars

(***************************************************************************)
(* Vocabulary of the properties.                                           *)
(***************************************************************************)
\* integrate has returned its table
Integrated == "revenue" \in merged.cols

\* add_time_granularities has returned the daily and the weekly table
Bucketed == pc \in {"write_daily", "write_weekly", "done"}

\* main() has ended, by returning or by an exception
Ended == pc \in {"done", "failed"}

\* the three activity tables hold what their loaders returned
PpcLoaded == pc \in {"load_email", "load_social", "load_conversions", "integrate"}
EmailLoaded == pc \in {"load_social", "load_conversions", "integrate"}

\* the (date, channel) pair of a row
PairOf(r) == <<r["date"], r["channel"]>>

PairsOf(df) == {PairOf(df.rows[i]) : i \in DOMAIN df.rows}

\* the number of rows of the table that carry the pair
CountPair(df, k) == Cardinality({i \in DOMAIN df.rows : PairOf(df.rows[i]) = k})

ActivityPairs == PairsOf(ppc) \cup PairsOf(email) \cup PairsOf(social)

ActivityCount(k) == CountPair(ppc, k) + CountPair(email, k) + CountPair(social, k)

\* the Monday that starts the Monday-to-Sunday week of day d
WeekStart(d) == d - (d % 7)

\* the daily rows of the bucket (week starting on day m, channel ch)
BucketRows(m, ch) ==
    SelectSeq(daily.rows,
              LAMBDA r : /\ ~IsNa(r["date"])
                         /\ WeekStart(r["date"].n) = m
                         /\ r["channel"] = ch)

\* the weekly rows labelled with day m and channel ch
WeeklyAt(m, ch) ==
    SelectSeq(weekly.rows, LAMBDA r : r["date"] = Date(m) /\ r["channel"] = ch)

\* the value of a cell as a summand: a null adds nothing
Val(c) == IF c.t = "num" THEN c.n ELSE 0

\* the rows of a raw file whose date does not parse
BadDates(raw) ==
    {i \in DOMAIN raw.rows : raw.rows[i]["date"].s \notin ParseableDates}

\* the rows of a table that carry a null date and the channel ch
NullDated(df, ch) ==
    {i \in DOMAIN df.rows :
        IsNa(df.rows[i]["date"]) /\ df.rows[i]["channel"] = Str(ch)}

(***************************************************************************)
(* C1.  The (date, channel) pairs of the table integrate returns are       *)
(* exactly the pairs of the rows of the three activity tables: none is     *)
(* missing, and a pair with conversion events but no activity row is not   *)
(* there.                                                                  *)
(***************************************************************************)
C1_PairsPreserved == Integrated => PairsOf(merged) = ActivityPairs

\* a run where one summary row joined an activity row and another summary
\* row has no activity row
C1_Witness ==
    /\ Integrated
    /\ PairsOf(conv) \cap ActivityPairs # {}
    /\ PairsOf(conv) \ ActivityPairs # {}

(***************************************************************************)
(* C2.  As claimed: every (date, channel) pair of the activity tables has  *)
(* exactly one row in the table integrate returns.                         *)
(***************************************************************************)
C2_ExactlyOneRow ==
    Integrated => \A k \in ActivityPairs : CountPair(merged, k) = 1

(***************************************************************************)
(* C2, amended.  Every (date, channel) pair of the activity tables has as  *)
(* many rows in the table integrate returns as the three activity tables   *)
(* hold rows with that pair: at least one, and exactly one when the pair   *)
(* occurs once.                                                            *)
(***************************************************************************)
C2_OneRowPerActivityRow ==
    Integrated =>
        \A k \in ActivityPairs :
            /\ CountPair(merged, k) = ActivityCount(k)
            /\ CountPair(merged, k) >= 1

\* a pair that two activity rows carry and that a conversion summary
\* joined: the table holds two rows with it
C2_Witness ==
    /\ Integrated
    /\ \E k \in ActivityPairs \cap PairsOf(conv) :
          ActivityCount(k) = 2 /\ CountPair(merged, k) = 2

(***************************************************************************)
(* C3.  As claimed: a row of the table integrate returns whose pair has no *)
(* row in the conversion summary has revenue 0.0 and conversions 0.0.      *)
(***************************************************************************)
C3_UnmatchedAreZero ==
    Integrated =>
        \A i \in DOMAIN merged.rows :
            PairOf(merged.rows[i]) \notin PairsOf(conv) =>
                /\ merged.rows[i]["revenue"] = Num(0)
                /\ merged.rows[i]["conversions"] = Num(0)

(***************************************************************************)
(* C4.  As claimed: a source without a date column ends the run with the   *)
(* schema error and nothing written; a run writes both outputs or          *)
(* neither, and both exactly when no stage raised the schema error.        *)
(***************************************************************************)
C4_BothOrNeither ==
    Ended =>
        /\ (\E raw \in {rawPpc, rawEmail, rawSocial, rawConv} :
                "date" \notin raw.cols)
           => (err = "ValueError" /\ written = {})
        /\ written \in {{}, {"daily", "weekly"}}
        /\ (written = {"daily", "weekly"}) <=> (err # "ValueError")

(***************************************************************************)
(* C5.  As claimed: two daily rows of one channel whose dates lie in the   *)
(* same Monday-to-Sunday week share one weekly row, dated the Monday that  *)
(* starts the week; when they are the only rows of that week and channel   *)
(* its numeric columns are the sums of the two.                            *)
(***************************************************************************)
C5_SameWeekOneRow ==
    Bucketed =>
        \A i, j \in DOMAIN daily.rows :
            LET a == daily.rows[i]
                b == daily.rows[j]
            IN  (/\ i < j
                 /\ a["channel"] = b["channel"]
                 /\ ~IsNa(a["date"])
                 /\ ~IsNa(b["date"])
                 /\ WeekStart(a["date"].n) = WeekStart(b["date"].n))
                =>
                LET w == WeeklyAt(WeekStart(a["date"].n), a["channel"])
                IN  /\ Len(w) = 1
                    /\ Len(BucketRows(WeekStart(a["date"].n), a["channel"])) = 2
                       => \A c \in NumericCols :
                              w[1][c] = Num(Val(a[c]) + Val(b[c]))

(***************************************************************************)
(* C6.  As claimed: every weekly row holds, in every numeric column, the   *)
(* sum of that column over the daily rows of its (week-start, channel)     *)
(* bucket, and every bucket that holds a daily row has exactly one weekly  *)
(* row.                                                                    *)
(***************************************************************************)
C6_WeeklySums ==
    Bucketed =>
        /\ \A i \in DOMAIN weekly.rows :
               LET w == weekly.rows[i] IN
               \A c \in NumericCols :
                   w[c] = Num(SumCells(BucketRows(w["date"].n, w["channel"]), c))
        /\ \A i \in DOMAIN daily.rows :
               LET r == daily.rows[i] IN
               ~IsNa(r["date"]) =>
                   Len(WeeklyAt(WeekStart(r["date"].n), r["channel"])) = 1

\* the required columns, as a set
Required == {req[n] : n \in DOMAIN req}

\* a cell that holds a number and no null
IsNumber(c) == c.t = "num"

\* a cell pd.to_numeric cannot read as a number
Unparseable(c) == c.t = "str" /\ c.s \notin NumericStrings

(***************************************************************************)
(* C7.  After coalesce_numeric every required column is present and holds  *)
(* numbers only: an absent column, a null and an unparseable value have    *)
(* become 0.0.  In the table integrate returns, spend, clicks,             *)
(* emails_sent, impressions and revenue hold no null in any row, the rows  *)
(* that matched no conversion summary included.                            *)
(***************************************************************************)
C7_NoNulls ==
    /\ pc \in {"coalesce_again", "coalesced"} =>
          \A c \in Required :
              /\ c \in once.cols
              /\ \A i \in DOMAIN once.rows :
                    /\ IsNumber(once.rows[i][c])
                    /\ c \notin tbl.cols => once.rows[i][c] = Num(0)
                    /\ (c \in tbl.cols /\ IsNa(tbl.rows[i][c]))
                       => once.rows[i][c] = Num(0)
                    /\ (c \in tbl.cols /\ Unparseable(tbl.rows[i][c]))
                       => once.rows[i][c] = Num(0)
    /\ Integrated =>
          \A i \in DOMAIN merged.rows :
              \A c \in {"spend", "clicks", "emails_sent", "impressions",
                        "revenue"} :
                  IsNumber(merged.rows[i][c])

\* a call that met an absent column, a null and an unparseable value
C7_Witness ==
    /\ pc = "coalesce_again"
    /\ Required \ tbl.cols # {}
    /\ \E c \in Required \cap tbl.cols : \E i, j \in DOMAIN tbl.rows :
          IsNa(tbl.rows[i][c]) /\ Unparseable(tbl.rows[j][c])

\* |clicks - spend / 2.0| <= 0.5 and clicks is whole; a null spend gives a
\* null
IsRoundedHalf(clicks, spend) ==
    IF IsNumber(spend)
    THEN /\ IsNumber(clicks)
         /\ clicks.n % 100 = 0
         /\ 2 * clicks.n - spend.n \in -100..100
    ELSE IsNa(clicks)

\* spend = emails_sent * 30.0 / 1000.0; a null emails_sent gives a null
IsCpmSpend(spend, sent) ==
    IF IsNumber(sent)
    THEN IsNumber(spend) /\ spend.n * 1000 = sent.n * 30
    ELSE IsNa(spend)

\* the column is absent from the raw file or null in every row of it
NothingNative(raw, c) ==
    c \notin raw.cols \/ \A i \in DOMAIN raw.rows : raw.rows[i][c] = Null

(***************************************************************************)
(* C8.  load_ppc imputes clicks exactly when the clicks column is absent   *)
(* or null in every row, and then clicks = round(spend / 2.0) in every row *)
(* (spend 100.0 gives 50.0); load_email imputes spend exactly when the     *)
(* spend column is absent or null in every row, and then spend =           *)
(* emails_sent * 30.0 / 1000.0 in every row (2000 e-mails give 60.0).      *)
(* Otherwise every native value, a null included, stays as it was.         *)
(***************************************************************************)
C8_ImputeWhenNothingNative ==
    /\ PpcLoaded =>
          \A i \in DOMAIN ppc.rows :
              IF NothingNative(rawPpc, "clicks")
              THEN /\ IsRoundedHalf(ppc.rows[i]["clicks"], rawPpc.rows[i]["spend"])
                   /\ rawPpc.rows[i]["spend"] = Num(10000)
                      => ppc.rows[i]["clicks"] = Num(5000)
              ELSE ppc.rows[i]["clicks"] = rawPpc.rows[i]["clicks"]
    /\ EmailLoaded =>
          \A i \in DOMAIN email.rows :
              IF NothingNative(rawEmail, "spend")
              THEN /\ IsCpmSpend(email.rows[i]["spend"],
                                 rawEmail.rows[i]["emails_sent"])
                   /\ rawEmail.rows[i]["emails_sent"] = Num(200000)
                      => email.rows[i]["spend"] = Num(6000)
              ELSE email.rows[i]["spend"] = rawEmail.rows[i]["spend"]

\* both loaders have imputed: the files lack clicks and spend, the rows
\* have spend 100.0 and 2000 e-mails
C8_Witness ==
    /\ pc = "load_social"
    /\ "clicks" \notin rawPpc.cols
    /\ "spend" \notin rawEmail.cols
    /\ ppc.rows[1]["clicks"] = Num(5000)
    /\ email.rows[1]["spend"] = Num(6000)

(***************************************************************************)
(* C9.  coalesce_numeric is idempotent: a second call with the same list   *)
(* of columns returns the table the first call returned.                   *)
(***************************************************************************)
C9_Idempotent == pc = "coalesced" => twice = once

\* the first call changed the table: it parsed a string and added or
\* filled a column
C9_Witness ==
    /\ pc = "coalesced"
    /\ once # tbl
    /\ Required \ tbl.cols # {}
    /\ \E i \in DOMAIN tbl.rows : \E c \in Required \cap tbl.cols :
          tbl.rows[i][c].t = "str" /\ ~Unparseable(tbl.rows[i][c])

\* the rows of the three raw files, and those whose date does not parse
ActivityRowCount == Len(rawPpc.rows) + Len(rawEmail.rows) + Len(rawSocial.rows)

RawOf(ch) ==
    CASE ch = "PPC" -> rawPpc
      [] ch = "Email" -> rawEmail
      [] ch = "Social Media" -> rawSocial

\* the daily rows that carry a date
DatedRows == SelectSeq(daily.rows, LAMBDA r : ~IsNa(r["date"]))

(***************************************************************************)
(* C10.  An activity row whose date does not parse carries a null date and *)
(* is dropped by no stage up to the daily table: it is in the union, in    *)
(* the table integrate returns and in the daily table, whose row count is  *)
(* the number of activity rows.  It adds to no weekly row: the weekly      *)
(* column totals are the daily column totals over the rows with a date.    *)
(***************************************************************************)
C10_NullDatesFlow ==
    /\ Integrated =>
          /\ Len(base.rows) = ActivityRowCount
          /\ Len(merged.rows) = ActivityRowCount
          /\ \A ch \in {"PPC", "Email", "Social Media"} :
                /\ Cardinality(NullDated(base, ch))
                   = Cardinality(BadDates(RawOf(ch)))
                /\ Cardinality(NullDated(merged, ch))
                   = Cardinality(BadDates(RawOf(ch)))
    /\ Bucketed =>
          /\ Len(daily.rows) = ActivityRowCount
          /\ \A ch \in {"PPC", "Email", "Social Media"} :
                Cardinality(NullDated(daily, ch))
                = Cardinality(BadDates(RawOf(ch)))
          /\ \A i \in DOMAIN weekly.rows : ~IsNa(weekly.rows[i]["date"])
          /\ \A c \in NumericCols :
                SumCells(weekly.rows, c) = SumCells(DatedRows, c)

\* a daily table with a null-dated row beside dated ones, and a weekly
\* table built from the dated ones
C10_Witness ==
    /\ Bucketed
    /\ \E ch \in {"PPC", "Email", "Social Media"} : NullDated(daily, ch) # {}
    /\ Len(weekly.rows) > 0
    /\ Len(daily.rows) = 3

====
